---- MODULE Spec2Model ----
(***************************************************************************)
(* Model of package ratelimit (src/ratelimit.go): the Limiter middleware   *)
(* and the token bucket it drives.  The bucket is the type Bucket of the   *)
(* imported package github.com/juju/ratelimit (src/ratelimit.go:11); its   *)
(* operations are modelled by what that package does at the call sites     *)
(* (NewBucket, NewBucketWithRate, TakeAvailable, Available, Capacity).     *)
(* Each bucket method runs under the bucket's mutex and is one step.       *)
(* Time is counted in clock units, Second units to the second.  The type   *)
(* int is taken as 64 bits wide, so int(int64) keeps the values used here. *)
(***************************************************************************)
EXTENDS Integers, Sequences, FiniteSets, TLC

\* ------------------------------------------------------------------ bounds
MaxTime == 3
MaxRequests == 3
MaxPreds == 2
BigCapacity == 10
Second == 2
QuantumLimit == 6

Threads == {1, 2}
\* A predicate is identified by a number; a request is the set of the
\* predicates that return true for it (predicates are pure and total).
Preds == {1, 2}
Requests == SUBSET Preds
Capacities == {0, 1, 2, BigCapacity}
TimeWindows == {0, 2}
Rates == {0, 1, 4}
Responders == {"RateLimitResponder", "custom"}

Min(a, b) == IF a < b THEN a ELSE b
Abs(a) == IF a < 0 THEN 0 - a ELSE a

VARIABLES
    now,        \* the wall clock, in clock units
    result,     \* outcome of the constructor call: "none", "limiter", "panic"
    limiter,    \* the Limiter struct: bucket, responder, filters, exceptions
    thr,        \* per request-handling goroutine: position and locals
    cfg,        \* history: the constructor's arguments
    arrivals,   \* history: number of requests handed to the gate
    nTakes,     \* history: number of TakeAvailable calls made
    taken,      \* history: tokens removed since the clock last advanced
    fwd,        \* history: requests forwarded on a token taken since then
    obs,        \* history: time of, and token count after, the last bucket access
    respSet,    \* history: the last function given to SetResponder, "" if none
    takenAt,    \* history: tokens removed from the bucket at each instant
    cons        \* history: time of, and token count after, the last take that removed a token

vars == <<now, result, limiter, thr, cfg, arrivals, nTakes, taken, fwd, obs, respSet,
          takenAt, cons>>

\* ------------------------------------------------- strconv.Itoa and back
DigitChars == <<"0", "1", "2", "3", "4", "5", "6", "7", "8", "9">>

RECURSIVE ItoaNat(_)
ItoaNat(n) ==
    IF n < 10 THEN <<DigitChars[n + 1]>>
    ELSE ItoaNat(n \div 10) \o <<DigitChars[(n % 10) + 1]>>

Itoa(n) == IF n < 0 THEN <<"-">> \o ItoaNat(0 - n) ELSE ItoaNat(n)

DigitValue(c) == CHOOSE d \in 0..9 : DigitChars[d + 1] = c

IsDecimal(str) == Len(str) > 0 /\ \A i \in 1..Len(str) : \E d \in 0..9 : DigitChars[d + 1] = str[i]

\* The number a string of decimal digits denotes.
RECURSIVE Atoi(_)
Atoi(str) ==
    IF Len(str) = 0 THEN 0
    ELSE 10 * Atoi(SubSeq(str, 1, Len(str) - 1)) + DigitValue(str[Len(str)])

\* ------------------------------------- the bucket, github.com/juju/ratelimit
NoBucket ==
    [startTime |-> 0, capacity |-> 0, quantum |-> 0, fillInterval |-> 0,
     availableTokens |-> 0, latestTick |-> 0]

\* The constructor's checks without the one on capacity.
BucketPanicsIgnoresCapacity(fillInterval, capacity, quantum) ==
    fillInterval <= 0 \/ quantum <= 0

\* NewBucketWithQuantum panics unless fillInterval, capacity and quantum are > 0.
BucketPanics(fillInterval, capacity, quantum) ==
    fillInterval <= 0 \/ capacity <= 0 \/ quantum <= 0

\* A bucket that starts empty.
NewBucketStartsEmpty(fillInterval, capacity, quantum, t) ==
    [startTime |-> t, capacity |-> capacity, quantum |-> quantum,
     fillInterval |-> fillInterval, availableTokens |-> 0,
     latestTick |-> 0]

\* The bucket starts full, its ticks counted from the time of construction.
NewBucketWithQuantum(fillInterval, capacity, quantum, t) ==
    [startTime |-> t, capacity |-> capacity, quantum |-> quantum,
     fillInterval |-> fillInterval, availableTokens |-> capacity,
     latestTick |-> 0]

\* NewBucket(fillInterval, capacity): one token every fillInterval.
NewBucket(fillInterval, capacity, t) ==
    NewBucketWithQuantum(fillInterval, capacity, 1, t)

NextQuantum(q) == IF (q * 11) \div 10 = q THEN q + 1 ELSE (q * 11) \div 10

\* The search of NewBucketWithRate for a quantum and a fill interval whose
\* rate is within 1% of the rate asked for; quantum = 0 when there is none
\* (the constructor then panics).  A rate <= 0 gives no fill interval > 0.
RECURSIVE FindQuantum(_, _)
FindQuantum(rate, q) ==
    IF q >= QuantumLimit THEN [quantum |-> 0, fillInterval |-> 0]
    ELSE LET fi == IF rate <= 0 THEN 0 ELSE (Second * q) \div rate
         IN  IF fi <= 0 THEN FindQuantum(rate, NextQuantum(q))
             ELSE IF 100 * Abs(Second * q - rate * fi) <= rate * fi
                  THEN [quantum |-> q, fillInterval |-> fi]
                  ELSE FindQuantum(rate, NextQuantum(q))

RatePanics(rate, capacity) ==
    BucketPanics(1, capacity, 1) \/ FindQuantum(rate, 1).quantum = 0

NewBucketWithRate(rate, capacity, t) ==
    LET f == FindQuantum(rate, 1)
    IN  NewBucketWithQuantum(f.fillInterval, capacity, f.quantum, t)

currentTick(tb, t) == (t - tb.startTime) \div tb.fillInterval

\* adjustavailableTokens leaving the latest tick behind while the bucket is full.
adjustKeepsTickWhenFull(tb, tick) ==
    IF tb.availableTokens >= tb.capacity
    THEN tb
    ELSE [tb EXCEPT !.latestTick = tick,
                    !.availableTokens =
                        Min(tb.capacity,
                            tb.availableTokens + (tick - tb.latestTick) * tb.quantum)]

\* adjustavailableTokens without the cap at capacity.
adjustUncapped(tb, tick) ==
    IF tb.availableTokens >= tb.capacity
    THEN [tb EXCEPT !.latestTick = tick]
    ELSE [tb EXCEPT !.latestTick = tick,
                    !.availableTokens =
                        tb.availableTokens + (tick - tb.latestTick) * tb.quantum]

\* adjustavailableTokens moving the tick on and never crediting a token.
adjustNoRefill(tb, tick) == [tb EXCEPT !.latestTick = tick]

\* adjustavailableTokens crediting without moving the latest tick on.
adjustKeepsLatestTick(tb, tick) ==
    IF tb.availableTokens >= tb.capacity
    THEN tb
    ELSE [tb EXCEPT !.availableTokens =
                        Min(tb.capacity,
                            tb.availableTokens + (tick - tb.latestTick) * tb.quantum)]

\* adjustavailableTokens: credit quantum tokens per tick elapsed since the
\* latest tick seen, up to capacity; a full bucket only moves its tick on.
adjustavailableTokens(tb, tick) ==
    IF tb.availableTokens >= tb.capacity
    THEN [tb EXCEPT !.latestTick = tick]
    ELSE [tb EXCEPT !.latestTick = tick,
                    !.availableTokens =
                        Min(tb.capacity,
                            tb.availableTokens + (tick - tb.latestTick) * tb.quantum)]

\* TakeAvailable removing count tokens whatever the bucket holds.
TakeAvailableUnchecked(tb, t, count) ==
    LET b == adjustavailableTokens(tb, currentTick(tb, t))
    IN  [bucket |-> [b EXCEPT !.availableTokens = b.availableTokens - count],
         count |-> count]

\* TakeAvailable(count): refill, then remove min(count, available); one
\* critical section.  Returns the bucket after the call and the count removed.
TakeAvailable(tb, t, count) ==
    LET b == adjustavailableTokens(tb, currentTick(tb, t))
        n == IF count <= 0 \/ b.availableTokens <= 0 THEN 0
             ELSE Min(count, b.availableTokens)
    IN  IF count <= 0 THEN [bucket |-> tb, count |-> 0]
        ELSE [bucket |-> [b EXCEPT !.availableTokens = b.availableTokens - n],
              count |-> n]

\* Available(): refill, then read; one critical section.
Available(tb, t) ==
    LET b == adjustavailableTokens(tb, currentTick(tb, t))
    IN  [bucket |-> b, count |-> b.availableTokens]

Capacity(tb) == tb.capacity

\* --------------------------------------------------------------- the Limiter
NoLimiter ==
    [bucket |-> NoBucket, responder |-> "", filters |-> <<>>, exceptions |-> <<>>]

NoConfig == [kind |-> "none", timeWindow |-> 0, rate |-> 0, capacity |-> 0]

\* A goroutine outside LimitHTTP: no request, an empty response.
Idle ==
    [pc |-> "idle", req |-> {}, inScope |-> FALSE, available |-> 0, ord |-> 0,
     at |-> 0, takes |-> 0, hLimit |-> <<>>, hRemaining |-> <<>>, served |-> 0,
     responded |-> <<>>, status |-> 0, body |-> "", nExc |-> 0, nFlt |-> 0,
     postTake |-> 0]

\* A predicate applied to a request.
Matches(p, r) == p \in r

\* The exception loop running to the end of the list before it bypasses.
RECURSIVE exceptionLoopLastMatch(_, _, _)
exceptionLoopLastMatch(exceptions, r, i) ==
    IF i > Len(exceptions) THEN 0
    ELSE LET rest == exceptionLoopLastMatch(exceptions, r, i + 1)
         IN  IF rest # 0 THEN rest
             ELSE IF Matches(exceptions[i], r) THEN i ELSE 0

\* The exception loop consulting only the first exception registered.
RECURSIVE exceptionLoopFirstOnly(_, _, _)
exceptionLoopFirstOnly(exceptions, r, i) ==
    IF i > Len(exceptions) \/ i > 1 THEN 0
    ELSE IF Matches(exceptions[i], r) THEN i
    ELSE exceptionLoopFirstOnly(exceptions, r, i + 1)

\* The exception loop of LimitHTTP: the index of the first exception, in
\* registration order, that matches the request; 0 when none does.
RECURSIVE exceptionLoop(_, _, _)
exceptionLoop(exceptions, r, i) ==
    IF i > Len(exceptions) THEN 0
    ELSE IF Matches(exceptions[i], r) THEN i
    ELSE exceptionLoop(exceptions, r, i + 1)

\* The filter loop bypassing on a filter that matches, as its comment reads.
RECURSIVE filterLoopOnMatch(_, _, _)
filterLoopOnMatch(filters, r, i) ==
    IF i > Len(filters) THEN 0
    ELSE IF Matches(filters[i], r) THEN i
    ELSE filterLoopOnMatch(filters, r, i + 1)

\* The filter loop of LimitHTTP: the index of the first filter, in
\* registration order, that does not match the request; 0 when all match.
RECURSIVE filterLoop(_, _, _)
filterLoop(filters, r, i) ==
    IF i > Len(filters) THEN 0
    ELSE IF ~Matches(filters[i], r) THEN i
    ELSE filterLoop(filters, r, i + 1)

\* How many exceptions the closure calls for the request: the loop runs up
\* to the iteration that returns.
exceptionsConsulted(l, r) ==
    LET i == exceptionLoop(l.exceptions, r, 1)
    IN  IF i = 0 THEN Len(l.exceptions) ELSE i

\* How many filters the closure calls: none when the exception loop
\* returned, else up to the iteration that returns.
filtersConsulted(l, r) ==
    IF exceptionLoop(l.exceptions, r, 1) # 0 THEN 0
    ELSE LET i == filterLoop(l.filters, r, 1)
         IN  IF i = 0 THEN Len(l.filters) ELSE i

\* Whether LimitHTTP reaches l.limit for the request.
Limited(l, r) ==
    exceptionLoop(l.exceptions, r, 1) = 0 /\ filterLoop(l.filters, r, 1) = 0

\* capacity reading the bucket's current count in place of its capacity.
capacityAsAvailable(l) == l.bucket.availableTokens

capacity(l) == Capacity(l.bucket)

\* remaining reporting one token fewer than the bucket holds.
remainingOffByOne(n) == IF n > 1 THEN n - 1 ELSE 0

\* remaining, given what bucket.Available() returned.
remaining(n) == IF n > 0 THEN n ELSE 0

\* What the responder writes: the default one writes 429 and its text.
ResponderStatus(fn) == IF fn = "RateLimitResponder" THEN 429 ELSE 503
ResponderBody(fn) == IF fn = "RateLimitResponder" THEN "Too Many Requests" ELSE "custom"

\* limit without its test of the count taken: every request is forwarded.
DeniedNever(available) == FALSE

\* limit with its test turned round.
DeniedInverted(available) == available # 0

\* Whether limit replies through the responder, given TakeAvailable's result.
Denied(available) == available = 0

Init ==
    /\ now = 0
    /\ result = "none"
    /\ limiter = NoLimiter
    /\ thr = [t \in Threads |-> Idle]
    /\ cfg = NoConfig
    /\ arrivals = 0
    /\ nTakes = 0
    /\ taken = 0
    /\ fwd = 0
    /\ obs = [time |-> 0, avail |-> 0]
    /\ respSet = ""
    /\ takenAt = [u \in 0..MaxTime |-> 0]
    /\ cons = [time |-> 0, avail |-> -1]

NewTimeLimiter(timeWindow, cap) ==
    /\ result = "none"
    /\ cfg' = [kind |-> "time", timeWindow |-> timeWindow, rate |-> 0, capacity |-> cap]
    /\ IF BucketPanics(timeWindow, cap, 1)
       THEN /\ result' = "panic"
            /\ UNCHANGED <<limiter, obs>>
       ELSE /\ result' = "limiter"
            /\ limiter' = [bucket |-> NewBucket(timeWindow, cap, now),
                           responder |-> "RateLimitResponder",
                           filters |-> <<>>, exceptions |-> <<>>]
            /\ obs' = [time |-> now, avail |-> limiter'.bucket.availableTokens]
    /\ UNCHANGED <<now, thr, arrivals, nTakes, taken, fwd, respSet, takenAt, cons>>

NewRateLimiter(rate, cap) ==
    /\ result = "none"
    /\ cfg' = [kind |-> "rate", timeWindow |-> 0, rate |-> rate, capacity |-> cap]
    /\ IF RatePanics(rate, cap)
       THEN /\ result' = "panic"
            /\ UNCHANGED <<limiter, obs>>
       ELSE /\ result' = "limiter"
            /\ limiter' = [bucket |-> NewBucketWithRate(rate, cap, now),
                           responder |-> "RateLimitResponder",
                           filters |-> <<>>, exceptions |-> <<>>]
            /\ obs' = [time |-> now, avail |-> limiter'.bucket.availableTokens]
    /\ UNCHANGED <<now, thr, arrivals, nTakes, taken, fwd, respSet, takenAt, cons>>

\* Registration happens during setup, before the gate serves traffic.
Setup == result = "limiter" /\ arrivals = 0

SetResponder(fn) ==
    /\ Setup
    /\ limiter' = [limiter EXCEPT !.responder = fn]
    /\ respSet' = fn
    /\ UNCHANGED <<now, result, thr, cfg, arrivals, nTakes, taken, fwd, obs, takenAt, cons>>

Filter(fn) ==
    /\ Setup
    /\ Len(limiter.filters) + Len(limiter.exceptions) + Len(fn) <= MaxPreds
    /\ limiter' = [limiter EXCEPT !.filters = limiter.filters \o fn]
    /\ UNCHANGED <<now, result, thr, cfg, arrivals, nTakes, taken, fwd, obs,
                   respSet, takenAt, cons>>

Exception(fn) ==
    /\ Setup
    /\ Len(limiter.filters) + Len(limiter.exceptions) + Len(fn) <= MaxPreds
    /\ limiter' = [limiter EXCEPT !.exceptions = limiter.exceptions \o fn]
    /\ UNCHANGED <<now, result, thr, cfg, arrivals, nTakes, taken, fwd, obs,
                   respSet, takenAt, cons>>

\* A goroutine is free before its first request and once its closure returned.
Free(t) == thr[t].pc \in {"idle", "done"}

\* The closure LimitHTTP returns, up to the call of l.limit: a bypassed
\* request goes straight to the downstream handler.  Goroutines are
\* interchangeable: a request is handled by the lowest free one.
closure(t, r) ==
    /\ result = "limiter"
    /\ Free(t)
    /\ \A u \in Threads : u < t => ~Free(u)
    /\ thr' = [thr EXCEPT ![t] =
                 LET g == [Idle EXCEPT !.req = r,
                                       !.nExc = exceptionsConsulted(limiter, r),
                                       !.nFlt = filtersConsulted(limiter, r)]
                 IN  IF Limited(limiter, r)
                     THEN [g EXCEPT !.pc = "take", !.inScope = TRUE]
                     ELSE [g EXCEPT !.pc = "done", !.served = 1]]
    /\ UNCHANGED <<now, result, limiter, cfg, respSet>>

\* A request arrives at the closure; arrivals are counted.
LimitHTTP(t, r) ==
    /\ closure(t, r)
    /\ arrivals < MaxRequests
    /\ arrivals' = arrivals + 1
    /\ UNCHANGED <<nTakes, taken, fwd, obs, takenAt, cons>>

\* limit, line 110: available := l.bucket.TakeAvailable(1)
limitTake(t) ==
    /\ thr[t].pc = "take"
    /\ LET res == TakeAvailable(limiter.bucket, now, 1)
       IN  /\ limiter' = [limiter EXCEPT !.bucket = res.bucket]
           /\ thr' = [thr EXCEPT ![t].pc = "headers",
                                 ![t].available = res.count,
                                 ![t].takes = thr[t].takes + 1,
                                 ![t].ord = nTakes + 1,
                                 ![t].at = now,
                                 ![t].postTake = res.bucket.availableTokens]
    /\ UNCHANGED <<now, result, cfg, respSet>>

\* The take, with the histories of the bucket's accesses kept.
LimitTake(t) ==
    /\ limitTake(t)
    /\ LET res == TakeAvailable(limiter.bucket, now, 1)
       IN  /\ taken' = taken + res.count
           /\ takenAt' = [takenAt EXCEPT ![now] = takenAt[now] + res.count]
           /\ cons' = IF res.count > 0
                      THEN [time |-> now, avail |-> res.bucket.availableTokens]
                      ELSE cons
           /\ obs' = [time |-> now, avail |-> res.bucket.availableTokens]
    /\ nTakes' = nTakes + 1
    /\ UNCHANGED <<arrivals, fwd>>

\* limit, lines 112-114: the two headers; remaining() reads bucket.Available()
limitHeaders(t) ==
    /\ thr[t].pc = "headers"
    /\ LET res == Available(limiter.bucket, now)
       IN  /\ limiter' = [limiter EXCEPT !.bucket = res.bucket]
           /\ thr' = [thr EXCEPT ![t].pc = "dispatch",
                                 ![t].hLimit = Itoa(capacity(limiter)),
                                 ![t].hRemaining = Itoa(remaining(res.count))]
    /\ UNCHANGED <<now, result, cfg, respSet>>

\* The headers, with the history of the bucket's accesses kept.
LimitHeaders(t) ==
    /\ limitHeaders(t)
    /\ obs' = [time |-> now, avail |-> limiter'.bucket.availableTokens]
    /\ UNCHANGED <<arrivals, nTakes, taken, fwd, takenAt, cons>>

\* limit replying through the package's default responder, whatever was set.
dispatchDefaultResponder(l, g) ==
    IF Denied(g.available)
    THEN [g EXCEPT !.pc = "done",
                   !.responded = Append(g.responded, "RateLimitResponder"),
                   !.status = ResponderStatus("RateLimitResponder"),
                   !.body = ResponderBody("RateLimitResponder")]
    ELSE [g EXCEPT !.pc = "done", !.served = g.served + 1]

\* limit without the return after the responder: the handler runs as well.
dispatchFallsThrough(l, g) ==
    IF Denied(g.available)
    THEN [g EXCEPT !.pc = "done",
                   !.responded = Append(g.responded, l.responder),
                   !.status = ResponderStatus(l.responder),
                   !.body = ResponderBody(l.responder),
                   !.served = g.served + 1]
    ELSE [g EXCEPT !.pc = "done", !.served = g.served + 1]

\* limit, lines 117-123, on the goroutine's locals g: l.responder(w, r) and
\* return when no token was taken, else h.ServeHTTP(w, r).
dispatch(l, g) ==
    IF Denied(g.available)
    THEN [g EXCEPT !.pc = "done",
                   !.responded = Append(g.responded, l.responder),
                   !.status = ResponderStatus(l.responder),
                   !.body = ResponderBody(l.responder)]
    ELSE [g EXCEPT !.pc = "done", !.served = g.served + 1]

\* limit, lines 117-123: the responder when no token was taken, else the handler
limitDispatch(t) ==
    /\ thr[t].pc = "dispatch"
    /\ thr' = [thr EXCEPT ![t] = dispatch(limiter, thr[t])]
    /\ UNCHANGED <<now, result, limiter, cfg, respSet>>

\* The dispatch, with the forwards of the current instant counted.
LimitDispatch(t) ==
    /\ limitDispatch(t)
    /\ fwd' = IF ~Denied(thr[t].available) /\ thr[t].at = now THEN fwd + 1 ELSE fwd
    /\ UNCHANGED <<arrivals, nTakes, taken, obs, takenAt, cons>>

\* The clock advances by one unit.
Tick ==
    /\ result = "limiter"
    /\ now < MaxTime
    /\ now' = now + 1
    /\ taken' = 0
    /\ fwd' = 0
    /\ UNCHANGED <<result, limiter, thr, cfg, arrivals, nTakes, obs, respSet, takenAt, cons>>

PredSeqs == {<<p>> : p \in Preds} \cup {<<p, q>> : p \in Preds, q \in Preds}

\* The capacities tried for the gate that serves one request at a time.
GateCapacities == {0, 1}

\* A gate set up with any responder, filters and exceptions, serving one
\* request at a time.
Next ==
    \/ \E w \in TimeWindows, c \in GateCapacities : NewTimeLimiter(w, c)
    \/ \E r \in Rates, c \in GateCapacities : NewRateLimiter(r, c)
    \/ \E fn \in Responders : SetResponder(fn)
    \/ \E fn \in PredSeqs : Filter(fn)
    \/ \E fn \in PredSeqs : Exception(fn)
    \/ \E r \in Requests : LimitHTTP(1, r)
    \/ LimitTake(1)
    \/ LimitHeaders(1)
    \/ LimitDispatch(1)
    \/ Tick

Spec == Init /\ [][Next]_vars

\* A gate with no filters or exceptions, serving requests on concurrent
\* goroutines; every request is in scope.
ConcNext ==
    \/ \E w \in TimeWindows, c \in Capacities : NewTimeLimiter(w, c)
    \/ \E r \in Rates, c \in Capacities : NewRateLimiter(r, c)
    \/ \E t \in Threads : LimitHTTP(t, {})
    \/ \E t \in Threads : LimitTake(t)
    \/ \E t \in Threads : LimitHeaders(t)
    \/ \E t \in Threads : LimitDispatch(t)
    \/ Tick

ConcSpec == Init /\ [][ConcNext]_vars

\* The histories, which a gate serving requests for ever does not keep.
hist == <<arrivals, nTakes, taken, fwd, obs, takenAt, cons>>

LiveArrive(t) == closure(t, {}) /\ UNCHANGED hist
LiveTake(t) == limitTake(t) /\ UNCHANGED hist
LiveHeaders(t) == limitHeaders(t) /\ UNCHANGED hist
LiveDispatch(t) == limitDispatch(t) /\ UNCHANGED hist

\* The clock advances by one unit, for ever.  At MaxTime the origin of time
\* is moved one fill interval on instead, which lowers the clock reading and
\* the index of every tick alike and leaves all the bucket computes (tick
\* differences after startTime) unchanged; the move waits for an access when
\* the bucket's latest tick is still the one of its construction.
LiveTick ==
    /\ result = "limiter"
    /\ IF now < MaxTime
       THEN now' = now + 1 /\ limiter' = limiter
       ELSE /\ limiter.bucket.latestTick >= 1
            /\ now + 1 >= limiter.bucket.fillInterval
            /\ now' = now + 1 - limiter.bucket.fillInterval
            /\ limiter' = [limiter EXCEPT !.bucket.latestTick = @ - 1]
    /\ UNCHANGED <<result, thr, cfg, respSet, hist>>

\* The capacities tried for the gate that serves without end.
LiveCapacities == {1, 2}

\* A gate with no filters or exceptions serving in-scope requests on
\* concurrent goroutines without end, the clock running.
LiveNext ==
    \/ \E w \in TimeWindows, c \in LiveCapacities : NewTimeLimiter(w, c)
    \/ \E r \in Rates, c \in LiveCapacities : NewRateLimiter(r, c)
    \/ \E t \in Threads : LiveArrive(t)
    \/ \E t \in Threads : LiveTake(t)
    \/ \E t \in Threads : LiveHeaders(t)
    \/ \E t \in Threads : LiveDispatch(t)
    \/ LiveTick

\* The clock keeps ticking, requests keep arriving, and a goroutine inside
\* limit is scheduled again: none of its steps waits on anything.
LiveSpec ==
    /\ Init /\ [][LiveNext]_vars
    /\ WF_vars(LiveTick)
    /\ WF_vars(\E t \in Threads : LiveArrive(t))
    /\ \A t \in Threads :
          WF_vars(LiveTake(t)) /\ WF_vars(LiveHeaders(t)) /\ WF_vars(LiveDispatch(t))

TypeOK ==
    /\ now \in 0..MaxTime
    /\ result \in {"none", "limiter", "panic"}
    /\ arrivals \in 0..MaxRequests

\* ------------------------------------------------------------------ claims
InFlight(t) == thr[t].pc \in {"take", "headers", "dispatch"}
PastTake(t) == thr[t].pc \in {"headers", "dispatch"} \/ (thr[t].pc = "done" /\ thr[t].inScope)

\* C1: no double-spend.  While the clock stands still, the tokens removed
\* from the bucket by in-scope requests, on any interleaving of the
\* goroutines, number at most the capacity, and so do the requests that
\* limit forwards on them.
C1_NoDoubleSpend ==
    result = "limiter" =>
        /\ taken <= limiter.bucket.capacity
        /\ fwd <= taken

\* The whole capacity was spent in one instant and a later request was denied.
C1_Witness ==
    /\ result = "limiter"
    /\ taken = limiter.bucket.capacity
    /\ fwd = taken
    /\ \E t \in Threads : thr[t].pc = "done" /\ thr[t].inScope /\ thr[t].available = 0
    /\ \E t \in Threads : InFlight(t)

\* C2: the bucket's token count stays within 0..capacity in every state,
\* and so does every X-RateLimit-Remaining value reported from it.
C2_AvailableInRange ==
    result = "limiter" =>
        /\ limiter.bucket.availableTokens >= 0
        /\ limiter.bucket.availableTokens <= limiter.bucket.capacity
        /\ \A t \in Threads :
              thr[t].hRemaining # <<>> =>
                  /\ IsDecimal(thr[t].hRemaining)
                  /\ Atoi(thr[t].hRemaining) <= limiter.bucket.capacity

\* A refill that would have passed the capacity: more than one token is
\* owed to a bucket one short of full.
C2_Witness ==
    /\ result = "limiter"
    /\ nTakes > 0
    /\ limiter.bucket.availableTokens = limiter.bucket.capacity
    /\ obs.avail = limiter.bucket.capacity
    /\ limiter.bucket.latestTick * limiter.bucket.quantum > nTakes

\* What the request is to the registered predicates.
SomeExceptionMatches(r) ==
    \E i \in 1..Len(limiter.exceptions) : Matches(limiter.exceptions[i], r)
SomeFilterFails(r) ==
    \E i \in 1..Len(limiter.filters) : ~Matches(limiter.filters[i], r)

\* The step in which goroutine t is handed request r.
Arrives(t, r) ==
    /\ arrivals' = arrivals + 1
    /\ Free(t) /\ \A u \in Threads : u < t => ~Free(u)
    /\ thr'[t].req = r

\* The request of goroutine t went to the downstream handler and nothing else
\* was done for it: no token taken, no header set, no responder called.
Bypassed(t) ==
    /\ thr'[t].pc = "done"
    /\ thr'[t].served = 1
    /\ thr'[t].responded = <<>>
    /\ thr'[t].takes = 0
    /\ thr'[t].hLimit = <<>> /\ thr'[t].hRemaining = <<>>
    /\ thr'[t].status = 0
    /\ limiter' = limiter
    /\ nTakes' = nTakes /\ taken' = taken

\* C3: exception bypass.  A request that some registered exception matches
\* is forwarded to the downstream handler in the step that receives it; no
\* token is taken (the bucket is unchanged), neither header is set and the
\* responder is not called, whatever the filters say and whatever the
\* bucket holds.
C3_ExceptionBypass ==
    [][\A t \in Threads, r \in Requests :
          (Arrives(t, r) /\ SomeExceptionMatches(r)) => Bypassed(t)]_vars

\* An excepted request that fails no filter was forwarded past an empty bucket.
C3_Witness ==
    /\ result = "limiter"
    /\ limiter.bucket.availableTokens = 0
    /\ Len(limiter.filters) > 0
    /\ \E t \in Threads :
          /\ thr[t].pc = "done" /\ ~thr[t].inScope /\ thr[t].served = 1
          /\ SomeExceptionMatches(thr[t].req)
          /\ ~SomeFilterFails(thr[t].req)

\* C4: filter conjunction.  A request that no exception matches and that
\* some registered filter does not match is forwarded in the step that
\* receives it, without a token taken and without the headers, even when
\* the bucket is empty.
C4_FilterBypass ==
    [][\A t \in Threads, r \in Requests :
          (Arrives(t, r) /\ ~SomeExceptionMatches(r) /\ SomeFilterFails(r))
              => Bypassed(t)]_vars

\* A request failing the second of two filters was forwarded past an empty bucket.
C4_Witness ==
    /\ result = "limiter"
    /\ limiter.bucket.availableTokens = 0
    /\ \E t \in Threads :
          /\ thr[t].pc = "done" /\ ~thr[t].inScope /\ thr[t].served = 1
          /\ ~SomeExceptionMatches(thr[t].req)
          /\ Len(limiter.filters) = 2
          /\ Matches(limiter.filters[1], thr[t].req)
          /\ ~Matches(limiter.filters[2], thr[t].req)

InScopeReq(r) == ~SomeExceptionMatches(r) /\ ~SomeFilterFails(r)
TakeStep(t) == thr[t].pc = "take" /\ thr'[t].pc = "headers"
HeadersStep(t) == thr[t].pc = "headers" /\ thr'[t].pc = "dispatch"
DispatchStep(t) == thr[t].pc = "dispatch" /\ thr'[t].pc = "done"
Max0(n) == IF n > 0 THEN n ELSE 0

C6_Headers ==
    /\ [](\A t \in Threads :
            /\ (thr[t].pc = "dispatch" \/ (thr[t].pc = "done" /\ thr[t].inScope)) =>
                  /\ IsDecimal(thr[t].hLimit)
                  /\ Atoi(thr[t].hLimit) = cfg.capacity
                  /\ IsDecimal(thr[t].hRemaining)
            /\ (thr[t].pc \in {"take", "headers"}) =>
                  thr[t].served = 0 /\ thr[t].responded = <<>>)
    /\ [][\A t \in Threads :
            HeadersStep(t) =>
                /\ IsDecimal(thr'[t].hRemaining)
                /\ Atoi(thr'[t].hRemaining) = Max0(limiter'.bucket.availableTokens)]_vars

\* One request forwarded and one denied, each with both headers.
C6_Witness ==
    /\ result = "limiter"
    /\ \E t, u \in Threads :
          /\ thr[t].pc = "done" /\ thr[t].served = 1 /\ thr[t].inScope
          /\ thr[t].hLimit = Itoa(cfg.capacity) /\ thr[t].hRemaining # <<>>
          /\ thr[u].pc = "done" /\ Len(thr[u].responded) = 1
          /\ thr[u].hLimit = Itoa(cfg.capacity) /\ thr[u].hRemaining = <<"0">>

\* C7: the bucket starts full and drains exactly.  On a fresh gate without
\* filters or exceptions, while no time has passed since construction, the
\* first capacity calls of TakeAvailable(1) take a token and are forwarded,
\* every later one takes none and is denied with X-RateLimit-Remaining = 0.
C7_StartsFullDrains ==
    (result = "limiter" /\ now = limiter.bucket.startTime) =>
        \A t \in Threads :
            PastTake(t) =>
                /\ thr[t].ord <= limiter.bucket.capacity => thr[t].available = 1
                /\ thr[t].ord > limiter.bucket.capacity => thr[t].available = 0
                /\ (thr[t].pc \in {"dispatch", "done"} /\ thr[t].available = 0) =>
                      thr[t].hRemaining = <<"0">>
                /\ thr[t].pc = "done" =>
                      /\ thr[t].available = 1 =>
                            thr[t].served = 1 /\ thr[t].responded = <<>>
                      /\ thr[t].available = 0 =>
                            thr[t].served = 0 /\ thr[t].responded # <<>>

\* Capacity 2, no time passed: the second call forwarded, the third denied.
C7_Witness ==
    /\ result = "limiter" /\ now = limiter.bucket.startTime
    /\ limiter.bucket.capacity = 2
    /\ \E t, u \in Threads :
          /\ thr[t].pc = "done" /\ thr[t].ord = 2 /\ thr[t].served = 1
          /\ thr[u].pc = "done" /\ thr[u].ord = 3 /\ thr[u].responded # <<>>
          /\ thr[u].hRemaining = <<"0">>

\* The instant up to which the bucket has credited tokens.
lastRefillTime(tb) == tb.startTime + tb.latestTick * tb.fillInterval

\* C8: window-based refill.  On a gate built by NewTimeLimiter, an access
\* (TakeAvailable or Available) made once a full window has passed since
\* the last refill finds the bucket reset to capacity, whatever it held,
\* and an access made earlier finds nothing added.
C8_WindowReset ==
    [][\A t \in Threads :
          (cfg.kind = "time" /\ (TakeStep(t) \/ HeadersStep(t))) =>
              LET elapsed == now - lastRefillTime(limiter.bucket)
                  found == limiter'.bucket.availableTokens
                               + (IF TakeStep(t) THEN thr'[t].available ELSE 0)
              IN  /\ elapsed >= cfg.timeWindow => found = cfg.capacity
                  /\ elapsed < cfg.timeWindow => found = limiter.bucket.availableTokens]_vars

\* C9 as stated: on a gate built by NewRateLimiter, Available() read t
\* after the last access, nothing taken in between, returns
\* min(capacity, count then + floor(t * rate)).
C9_RateFloor ==
    [][\A t \in Threads :
          (cfg.kind = "rate" /\ HeadersStep(t)) =>
              limiter'.bucket.availableTokens =
                  Min(cfg.capacity,
                      obs.avail + ((now - obs.time) * cfg.rate) \div Second)]_vars

\* C9, amended: the bucket credits quantum tokens at every whole multiple
\* of its fill interval counted from its construction (quantum per fill
\* interval being within 1% of the rate); Available() read after a wait
\* with nothing taken returns min(capacity, count before + quantum * the
\* number of those instants that fell in the wait).
C9_RateTicks ==
    /\ []((result = "limiter" /\ cfg.kind = "rate") =>
            LET tb == limiter.bucket
            IN  /\ tb.quantum > 0 /\ tb.fillInterval > 0
                /\ 100 * Abs(Second * tb.quantum - cfg.rate * tb.fillInterval)
                       <= cfg.rate * tb.fillInterval)
    /\ [][\A t \in Threads :
            (cfg.kind = "rate" /\ HeadersStep(t)) =>
                LET tb == limiter.bucket
                    k == (now - tb.startTime) \div tb.fillInterval
                             - (obs.time - tb.startTime) \div tb.fillInterval
                IN  limiter'.bucket.availableTokens =
                        Min(cfg.capacity, obs.avail + tb.quantum * k)]_vars

\* At 1 token a second, a token taken less than a second ago is back.
C9_Witness ==
    /\ result = "limiter" /\ cfg.kind = "rate" /\ cfg.rate = 1
    /\ \E t \in Threads :
          /\ thr[t].pc = "dispatch" /\ thr[t].available = 1
          /\ thr[t].at < now /\ now - thr[t].at < Second
          /\ obs.time = now
          /\ nTakes = 1
          /\ Atoi(thr[t].hRemaining) = cfg.capacity

InvalidConfig(c) ==
    \/ c.capacity <= 0
    \/ c.kind = "rate" /\ c.rate <= 0
    \/ c.kind = "time" /\ c.timeWindow <= 0

\* C10 as stated: a constructor called with capacity <= 0, rate <= 0 or
\* window <= 0 returns an InvalidConfig error value and no gate.
C10_ErrorReturned ==
    (cfg.kind # "none" /\ InvalidConfig(cfg)) =>
        (result = "InvalidConfig" /\ limiter = NoLimiter)

\* C10, amended: such a call panics inside the constructor; no error value
\* is returned (a constructor's only result is the *Limiter) and no gate
\* or bucket comes out of it; a gate that is returned has capacity > 0.
C10_PanicsNoGate ==
    /\ (cfg.kind # "none" /\ InvalidConfig(cfg)) =>
           (result = "panic" /\ limiter = NoLimiter)
    /\ result = "limiter" =>
           (~InvalidConfig(cfg) /\ limiter.bucket.capacity = cfg.capacity
              /\ limiter.bucket.capacity > 0)
    /\ result \in {"none", "limiter", "panic"}

\* NewRateLimiter called with rate 0 and a valid capacity panicked.
C10_Witness ==
    /\ result = "panic" /\ limiter = NoLimiter
    /\ cfg.kind = "rate" /\ cfg.rate <= 0 /\ cfg.capacity > 0

SomeFilterMatches(r) ==
    \E i \in 1..Len(limiter.filters) : Matches(limiter.filters[i], r)

\* C11: the doc comments of Limiter.Filter ("If the filter matches, the
\* traffic won't be limited") and of LimitHTTP ("If some filter passes, the
\* request won't be limited"): a request that some registered filter
\* matches is forwarded without the limiter being applied.
C11_FilterMatchBypasses ==
    [][\A t \in Threads, r \in Requests :
          (Arrives(t, r) /\ SomeFilterMatches(r)) => Bypassed(t)]_vars

\* The responder the gate holds, given the calls of SetResponder so far.
CurrentResponder == IF respSet = "" THEN "RateLimitResponder" ELSE respSet

\* C12: the deny path.  Every denied request gets one call of the gate's
\* current responder: the default one (429, "Too Many Requests") while
\* SetResponder was never called, afterwards the function last set and not
\* the default; SetResponder leaves bucket, filters and exceptions alone.
C12_Responder ==
    /\ [](result = "limiter" => limiter.responder = CurrentResponder)
    /\ [](\A t \in Threads :
            (thr[t].pc = "done" /\ thr[t].inScope /\ thr[t].available = 0) =>
                /\ thr[t].responded = <<CurrentResponder>>
                /\ CurrentResponder = "RateLimitResponder" =>
                      thr[t].status = 429 /\ thr[t].body = "Too Many Requests"
                /\ CurrentResponder # "RateLimitResponder" =>
                      thr[t].status # 429 /\ thr[t].body # "Too Many Requests")
    /\ [][respSet' # respSet =>
            /\ limiter'.responder = respSet'
            /\ limiter'.bucket = limiter.bucket
            /\ limiter'.filters = limiter.filters
            /\ limiter'.exceptions = limiter.exceptions]_vars

\* A request was denied through a responder that SetResponder installed.
C12_Witness ==
    /\ result = "limiter" /\ respSet = "custom"
    /\ Len(limiter.filters) > 0
    /\ thr[1].pc = "done" /\ thr[1].inScope /\ thr[1].available = 0
    /\ thr[1].responded = <<"custom">> /\ thr[1].status = 503

\* The orderings of a list of predicates.
PermsOf(q) ==
    { [i \in 1..Len(q) |-> q[f[i]]] :
        f \in { g \in [1..Len(q) -> 1..Len(q)] :
                  \A i, j \in 1..Len(q) : g[i] = g[j] => i = j } }

\* What the gate does with a request in the current state: a bypass, or the
\* number of tokens consumed (1 forwards, 0 denies) and the bucket left.
Outcome(l, r) ==
    IF Limited(l, r)
    THEN [bypass |-> FALSE, take |-> TakeAvailable(l.bucket, now, 1)]
    ELSE [bypass |-> TRUE, take |-> [bucket |-> l.bucket, count |-> 0]]

IsPrefix(q, s) == Len(q) <= Len(s) /\ \A i \in 1..Len(q) : q[i] = s[i]

\* C15: evaluation order and short-circuit.  Registration appends to the
\* lists and keeps what was registered in place.  The closure consults the
\* exceptions in registration order up to and including the first that
\* matches, the filters only when no exception matched and then up to and
\* including the first that does not match, and nothing after the predicate
\* that decided; the bucket is read or written only for a request for which
\* every registered predicate was consulted, and not in the step consulting them.
C15_ShortCircuit ==
    /\ [][(result = "limiter" /\ limiter' # limiter /\ limiter'.bucket = limiter.bucket) =>
            /\ IsPrefix(limiter.exceptions, limiter'.exceptions)
            /\ IsPrefix(limiter.filters, limiter'.filters)]_vars
    /\ [][\A t \in Threads, r \in Requests :
            Arrives(t, r) =>
              LET ne == thr'[t].nExc
                  nf == thr'[t].nFlt
                  E  == limiter.exceptions
                  F  == limiter.filters
              IN  /\ ne \in 0..Len(E) /\ nf \in 0..Len(F)
                  /\ \A i \in 1..(ne - 1) : ~Matches(E[i], r)
                  /\ ne < Len(E) => Matches(E[ne], r)
                  /\ (ne > 0 /\ Matches(E[ne], r)) => nf = 0
                  /\ (\A i \in 1..Len(E) : ~Matches(E[i], r)) =>
                        /\ ne = Len(E)
                        /\ \A i \in 1..(nf - 1) : Matches(F[i], r)
                        /\ nf < Len(F) => ~Matches(F[nf], r)
                        /\ (\A i \in 1..Len(F) : Matches(F[i], r)) => nf = Len(F)
                  /\ limiter'.bucket = limiter.bucket /\ nTakes' = nTakes]_vars
    /\ [][\A t \in Threads :
            TakeStep(t) => /\ thr[t].nExc = Len(limiter.exceptions)
                           /\ thr[t].nFlt = Len(limiter.filters)]_vars

\* Two exceptions are registered, both match the request, and the closure
\* consulted only the first and no filter.
C15_Witness ==
    /\ result = "limiter"
    /\ Len(limiter.exceptions) = 2
    /\ thr[1].pc = "done" /\ thr[1].served = 1
    /\ \A i \in 1..2 : Matches(limiter.exceptions[i], thr[1].req)
    /\ thr[1].nExc = 1 /\ thr[1].nFlt = 0

\* C19: exactly-one dispatch.  A request whose closure returned had exactly
\* one call made for it, either of the downstream handler or of the
\* responder; a denied request (no token taken) never reached the handler, a
\* forwarded or bypassed one never reached the responder, and nothing is
\* called while the request is still on its way through limit.
C19_ExactlyOneDispatch ==
    \A t \in Threads :
        /\ (thr[t].pc = "idle" \/ InFlight(t)) =>
              thr[t].served = 0 /\ thr[t].responded = <<>>
        /\ thr[t].pc = "done" =>
              /\ thr[t].served + Len(thr[t].responded) = 1
              /\ (thr[t].inScope /\ thr[t].available = 0) =>
                    thr[t].served = 0 /\ Len(thr[t].responded) = 1
              /\ (thr[t].inScope /\ thr[t].available # 0) =>
                    thr[t].served = 1 /\ thr[t].responded = <<>>
              /\ ~thr[t].inScope =>
                    thr[t].served = 1 /\ thr[t].responded = <<>>

\* After a bypassed or forwarded request, a later one was denied: the
\* responder ran once for it and the handler did not.
C19_Witness ==
    /\ result = "limiter" /\ arrivals >= 2
    /\ thr[1].pc = "done" /\ thr[1].inScope /\ thr[1].available = 0
    /\ Len(thr[1].responded) = 1 /\ thr[1].served = 0
    /\ Len(limiter.exceptions) > 0

\* Tokens removed from the bucket at the instants s..now.
RECURSIVE TakenSince(_)
TakenSince(s) == IF s > now THEN 0 ELSE takenAt[s] + TakenSince(s + 1)

\* Tokens the rate policy is stated to grant over d time units: floor(d * rate).
Granted(d) == (d * cfg.rate) \div Second

\* C16 as stated, for the rate-based gate: over any interval, the requests
\* admitted through the bucket number at most the capacity plus
\* floor(interval length * rate).
C16_BurstBound ==
    (result = "limiter" /\ cfg.kind = "rate") =>
        \A s \in 0..now : TakenSince(s) <= cfg.capacity + Granted(now - s)

\* C16, amended: over the instants s..now the requests admitted (their
\* TakeAvailable(1) removed a token) number at most the capacity plus one
\* quantum for each tick boundary of the bucket between s and now, ticks
\* counted from the bucket's construction; time the bucket sat full before s
\* adds nothing, and once the capacity was removed in one instant the next
\* take in that instant removes nothing.
C16_BurstBoundTicks ==
    /\ [](result = "limiter" =>
            \A s \in 0..now :
                TakenSince(s) <= limiter.bucket.capacity
                    + limiter.bucket.quantum
                        * (currentTick(limiter.bucket, now) - currentTick(limiter.bucket, s)))
    /\ [][\A t \in Threads :
            (TakeStep(t) /\ takenAt[now] >= limiter.bucket.capacity) =>
                thr'[t].available = 0]_vars

\* The bucket sat full, untouched, for at least one tick; its whole capacity
\* of two or more was then taken in one instant and the next request denied.
C16_Witness ==
    /\ result = "limiter" /\ limiter.bucket.capacity >= 2
    /\ currentTick(limiter.bucket, now) >= 1
    /\ TakenSince(0) = takenAt[now]
    /\ takenAt[now] = limiter.bucket.capacity
    /\ \E t \in Threads :
          thr[t].pc = "done" /\ thr[t].inScope /\ thr[t].available = 0 /\ thr[t].at = now

\* The bucket was read, below capacity, after the last take that removed a token.
ReadBelowCapacity ==
    /\ result = "limiter" /\ cfg.kind = "rate"
    /\ cons.avail >= 0
    /\ obs.time >= cons.time
    /\ obs.avail < limiter.bucket.capacity
    /\ limiter.bucket.availableTokens = obs.avail

\* C17 as stated: on a rate-based bucket read below capacity, the tokens
\* credited since the last consumption are floor(elapsed time * rate).
C17_FloorOfElapsed ==
    ReadBelowCapacity =>
        obs.avail - cons.avail = ((obs.time - cons.time) * cfg.rate) \div Second

\* C17, amended: on a rate-based bucket read below capacity, the tokens
\* credited since the last consumption are one quantum for each tick
\* boundary passed since, ticks counted from the bucket's construction,
\* however many accesses were made in between and whenever they were made.
C17_TicksOfElapsed ==
    ReadBelowCapacity =>
        obs.avail - cons.avail =
            limiter.bucket.quantum
                * (currentTick(limiter.bucket, obs.time) - currentTick(limiter.bucket, cons.time))

\* After the last consuming take the bucket was accessed by two requests at
\* later instants and had gained tokens without reaching capacity.
C17_Witness ==
    /\ ReadBelowCapacity
    /\ obs.time > cons.time
    /\ obs.avail > cons.avail
    /\ \E t \in Threads : thr[t].pc = "dispatch" /\ thr[t].at > cons.time

\* C18 as stated: the X-RateLimit-Remaining of a request whose header is
\* written in the instant of its take is the bucket's count right after
\* that take.
C18_RemainingIsPostTake ==
    \A t \in Threads :
        (thr[t].pc \in {"dispatch", "done"} /\ thr[t].inScope /\ obs.time = thr[t].at) =>
            Atoi(thr[t].hRemaining) = thr[t].postTake

\* C18, amended: the take and the read are two critical sections.  The
\* header carries the bucket's count at the time of the read; read in the
\* instant of the take it is at most the count right after the take, and
\* equal to it when no other request took from the bucket in between.
C18_RemainingAtRead ==
    [][\A t \in Threads :
          HeadersStep(t) =>
              /\ Atoi(thr'[t].hRemaining) = limiter'.bucket.availableTokens
              /\ thr[t].at = now =>
                    /\ Atoi(thr'[t].hRemaining) <= thr[t].postTake
                    /\ nTakes = thr[t].ord =>
                          Atoi(thr'[t].hRemaining) = thr[t].postTake]_vars

\* Another request took a token between a request's take and its read, in
\* one instant, and the header shows the lower count.
C18_Witness ==
    \E t \in Threads :
        /\ thr[t].pc = "dispatch" /\ thr[t].at = now /\ obs.time = now
        /\ nTakes > thr[t].ord
        /\ thr[t].available = 1
        /\ Atoi(thr[t].hRemaining) < thr[t].postTake

\* C13: non-blocking.  A request in limit can always take its next step,
\* whatever the bucket holds, and so reaches the end of the closure,
\* forwarded or denied; TakeAvailable(1) returns in the instant it is called,
\* 0 or 1 and never a negative number, and 0 with the bucket left as
\* refilled when that is empty.
C13_NonBlocking ==
    /\ [](\A t \in Threads :
            /\ thr[t].pc = "take" => ENABLED <<LiveTake(t)>>_vars
            /\ thr[t].pc = "headers" => ENABLED <<LiveHeaders(t)>>_vars
            /\ thr[t].pc = "dispatch" => ENABLED <<LiveDispatch(t)>>_vars
            /\ thr[t].available \in {0, 1})
    /\ [][\A t \in Threads :
            TakeStep(t) =>
                LET b == adjustavailableTokens(limiter.bucket,
                                               currentTick(limiter.bucket, now))
                IN  /\ now' = now
                    /\ thr'[t].available \in {0, 1}
                    /\ b.availableTokens = 0 =>
                          thr'[t].available = 0 /\ limiter'.bucket = b]_vars
    /\ \A t \in Threads :
          (thr[t].pc = "take") ~>
              (thr[t].pc = "done" /\ thr[t].served + Len(thr[t].responded) = 1)

\* A request went through limit on an empty bucket and was denied.
C13_Witness ==
    /\ result = "limiter" /\ limiter.bucket.availableTokens = 0
    /\ \E t \in Threads :
          /\ thr[t].pc = "done" /\ thr[t].inScope
          /\ thr[t].available = 0 /\ thr[t].postTake = 0
          /\ thr[t].at = now /\ Len(thr[t].responded) = 1

\* Some request in or past limit was denied: its take removed nothing.
SomeDenied ==
    \E t \in Threads :
        thr[t].pc \in {"headers", "dispatch", "done"} /\ thr[t].inScope /\ thr[t].available = 0

\* Some request has just come back from TakeAvailable(1) with a token: it
\* will be forwarded.
TokenTaken == \E t \in Threads : thr[t].pc = "headers" /\ thr[t].available = 1

\* C20: recovery.  With the clock ticking and in-scope requests arriving
\* for ever, a denial (no request holding a fresh token at that time) is
\* followed by a later call of TakeAvailable that removes a token, on gates
\* of NewRateLimiter and of NewTimeLimiter.
C20_Recovery == (SomeDenied /\ ~TokenTaken) ~> TokenTaken

\* Both goroutines' requests were denied on a gate of NewTimeLimiter.
C20_Witness ==
    /\ result = "limiter" /\ limiter.bucket.availableTokens = 0
    /\ \A t \in Threads : thr[t].pc = "done" /\ thr[t].inScope /\ thr[t].available = 0
    /\ cfg.kind = "time" /\ cfg.capacity = 2

====
